---- MODULE Spec2Model ----
(***************************************************************************)
(* Model of chess_models.py: Position, Piece, PieceMove and Chessboard.    *)
(* Python strings are sequences of one-character strings; Python lists are *)
(* sequences (index i of the code is index i+1 here); objects are records. *)
(* Line 89 reuses the quote character inside an f-string, which parses     *)
(* from Python 3.12 on (PEP 701); the model is of the module as it runs    *)
(* there. On older interpreters the module does not import at all.         *)
(***************************************************************************)
EXTENDS Integers, Sequences, FiniteSets, TLC

VARIABLES input, self, call, ret, exc

vars == <<input, self, call, ret, exc>>

\* How far outside the legal range the external inputs are drawn.
Slack == 1

\* Python's None.
None == [tag |-> "None"]

----------------------------------------------------------------------------
\* Python built-ins used by the code.

Ascii ==
  <<" ", "!", "QUOTE", "#", "$", "%", "&", "'", "(", ")", "*", "+", ",", "-", ".", "/",
    "0", "1", "2", "3", "4", "5", "6", "7", "8", "9", ":", ";", "<", "=", ">", "?",
    "@", "A", "B", "C", "D", "E", "F", "G", "H", "I", "J", "K", "L", "M", "N", "O",
    "P", "Q", "R", "S", "T", "U", "V", "W", "X", "Y", "Z", "[", "BACKSLASH", "]", "^", "_",
    "BACKTICK", "a", "b", "c", "d", "e", "f", "g", "h", "i", "j", "k", "l", "m", "n", "o",
    "p", "q", "r", "s", "t", "u", "v", "w", "x", "y", "z", "{", "|", "}", "~">>

\* code points 34, 92 and 96 are written by name
chr(n) == IF n = 10 THEN "\n" ELSE Ascii[n - 31]

ord(c) == IF c = "\n" THEN 10 ELSE CHOOSE n \in 32..126 : Ascii[n - 31] = c

upper(s) ==
  [k \in 1..Len(s) |-> IF ord(s[k]) \in ord("a")..ord("z") THEN chr(ord(s[k]) - 32) ELSE s[k]]

lower(s) ==
  [k \in 1..Len(s) |-> IF ord(s[k]) \in ord("A")..ord("Z") THEN chr(ord(s[k]) + 32) ELSE s[k]]

RECURSIVE Digits(_)
Digits(n) ==
  IF n < 10 THEN <<chr(ord("0") + n)>>
  ELSE Digits(n \div 10) \o <<chr(ord("0") + (n % 10))>>

\* str(n) / f"{n}" of an int
IntStr(n) == IF n < 0 THEN <<"-">> \o Digits(0 - n) ELSE Digits(n)

RECURSIVE join(_, _)
join(sep, strs) ==
  IF Len(strs) = 0 THEN <<>>
  ELSE IF Len(strs) = 1 THEN strs[1]
  ELSE strs[1] \o sep \o join(sep, Tail(strs))

reversed(l) == [k \in 1..Len(l) |-> l[Len(l) + 1 - k]]

\* l[i] of a Python list: an IndexError outside -len..len-1
InRange(l, i) == i < Len(l) /\ i >= 0 - Len(l)

ListGet(l, i) == IF i >= 0 THEN l[i + 1] ELSE l[Len(l) + i + 1]

----------------------------------------------------------------------------
\* Position

PositionFieldsOffByOne(row, col) == row >= 0 /\ row <= 8 /\ col >= 0 /\ col <= 8

PositionFields(row, col) == row >= 0 /\ row <= 7 /\ col >= 0 /\ col <= 7

Positions == [row : 0..7, col : 0..7]

to_tuple(p) == <<p.row, p.col>>

to_algebraic_flipped(p) == <<chr(p.col + ord("a"))>> \o IntStr(p.row + 1)

to_algebraic(p) == <<chr(p.col + ord("a"))>> \o IntStr(8 - p.row)

CoordInputs == (0 - Slack)..(7 + Slack)

InitPosition ==
  /\ input \in [row : CoordInputs, col : CoordInputs]
  /\ self = None
  /\ call = [op |-> "start"]
  /\ ret = None
  /\ exc = "none"

\* Position(row=input.row, col=input.col)
PositionNew ==
  /\ call' = [op |-> "Position"]
  /\ IF PositionFields(input.row, input.col)
       THEN /\ self' = [row |-> input.row, col |-> input.col]
            /\ ret' = self'
            /\ exc' = "none"
       ELSE /\ self' = self
            /\ ret' = None
            /\ exc' = "ValidationError"
  /\ UNCHANGED input

PositionToTuple ==
  /\ self # None
  /\ call' = [op |-> "to_tuple"]
  /\ ret' = to_tuple(self)
  /\ exc' = "none"
  /\ UNCHANGED <<input, self>>

PositionToAlgebraic ==
  /\ self # None
  /\ call' = [op |-> "to_algebraic"]
  /\ ret' = to_algebraic(self)
  /\ exc' = "none"
  /\ UNCHANGED <<input, self>>

NextPosition == PositionNew \/ PositionToTuple \/ PositionToAlgebraic

SpecPosition == InitPosition /\ [][NextPosition]_vars

----------------------------------------------------------------------------
\* Piece and PieceMove

Colors == {"white", "black"}

Types == {"pawn", "rook", "knight", "bishop", "queen", "king"}

Pieces == [color : Colors, type : Types]

piece_map(type) ==
  CASE type = "pawn" -> <<"P">>
    [] type = "rook" -> <<"R">>
    [] type = "knight" -> <<"N">>
    [] type = "bishop" -> <<"B">>
    [] type = "queen" -> <<"Q">>
    [] type = "king" -> <<"K">>

Piece_str_swapped(p) ==
  LET symbol == piece_map(p.type)
  IN IF p.color = "black" THEN lower(symbol) ELSE symbol

Piece_str(p) ==
  LET symbol == piece_map(p.type)
  IN IF p.color = "white" THEN lower(symbol) ELSE symbol

PieceMove_str_keep_case(m) ==
  LET piece_str == IF m.piece.type = "pawn" THEN <<>> ELSE Piece_str(m.piece)
  IN piece_str \o to_algebraic(m.from_position) \o to_algebraic(m.to_position)

PieceMove_str(m) ==
  LET piece_str == IF m.piece.type = "pawn" THEN <<>> ELSE upper(Piece_str(m.piece))
  IN piece_str \o to_algebraic(m.from_position) \o to_algebraic(m.to_position)

InitMove ==
  /\ input \in [piece : Pieces, from_position : Positions, to_position : Positions]
  /\ self = None
  /\ call = [op |-> "start"]
  /\ ret = None
  /\ exc = "none"

\* PieceMove(piece=..., from_position=..., to_position=...)
PieceMoveNew ==
  /\ call' = [op |-> "PieceMove"]
  /\ self' = input
  /\ ret' = self'
  /\ exc' = "none"
  /\ UNCHANGED input

\* str(move.piece)
MovePieceStr ==
  /\ self # None
  /\ call' = [op |-> "Piece.__str__"]
  /\ ret' = Piece_str(self.piece)
  /\ exc' = "none"
  /\ UNCHANGED <<input, self>>

\* str(move)
MoveStr ==
  /\ self # None
  /\ call' = [op |-> "PieceMove.__str__"]
  /\ ret' = PieceMove_str(self)
  /\ exc' = "none"
  /\ UNCHANGED <<input, self>>

NextMove == PieceMoveNew \/ MovePieceStr \/ MoveStr

SpecMove == InitMove /\ [][NextMove]_vars

----------------------------------------------------------------------------
\* Chessboard

\* def validate_board_dimensions(cls, v): a plain method, no @validator('board')
validate_board_dimensions(v) ==
  IF Len(v) # 8 \/ \E k \in 1..Len(v) : Len(v[k]) # 8
    THEN [exc |-> "ValueError", value |-> None]
    ELSE [exc |-> "none", value |-> v]

\* Chessboard(board=grid): the only checks pydantic runs are the field's type
\* List[List[Optional[Piece]]]; no validator is registered on the class.
Chessboard(grid) == [exc |-> "none", value |-> [board |-> grid]]

get_piece(b, position) ==
  IF ~InRange(b.board, position.row)
    THEN [exc |-> "IndexError", value |-> None]
    ELSE LET row == ListGet(b.board, position.row)
         IN IF ~InRange(row, position.col)
              THEN [exc |-> "IndexError", value |-> None]
              ELSE [exc |-> "none", value |-> ListGet(row, position.col)]

Header == <<" ", " ", "A", " ", "B", " ", "C", " ", "D", " ", "E", " ", "F", " ", "G", " ", "H">>

Border == <<" ", "+", "-", "-", "-", "-", "-", "-", "-", "-", "-", "-", "-", "-", "-", "-", "-", "-", "-", "+">>

display_row(row) ==
  [k \in 1..Len(row) |-> IF row[k] = None THEN <<".">> ELSE Piece_str(row[k])]

body_line_ascending(i, row) ==
  IntStr(i + 1) \o <<" ", "|", " ">> \o join(<<" ">>, display_row(row)) \o <<" ", "|">>

body_line(i, row) ==
  IntStr(8 - i) \o <<" ", "|", " ">> \o join(<<" ">>, display_row(row)) \o <<" ", "|">>

display(b) ==
  LET rev == reversed(b.board)
      rows == <<Header, Border>>
              \o [k \in 1..Len(rev) |-> body_line(k - 1, rev[k])]
              \o <<Border, Header>>
  IN join(<<"\n">>, rows)

BackRank == <<"rook", "knight", "bishop", "queen", "king", "bishop", "knight", "rook">>

NoneRow(n) == [k \in 1..n |-> None]

NoneGrid(nr, nc) == [k \in 1..nr |-> NoneRow(nc)]

create_initial_board_mirrored ==
  LET board0 == NoneGrid(8, 8)
      board1 == [board0 EXCEPT ![1] = [k \in 1..8 |-> [color |-> "black", type |-> BackRank[k]]]]
      board2 == [board1 EXCEPT ![2] = [k \in 1..8 |-> [color |-> "black", type |-> "pawn"]]]
      board3 == [board2 EXCEPT ![7] = [k \in 1..8 |-> [color |-> "white", type |-> "pawn"]]]
      board4 == [board3 EXCEPT ![8] = [k \in 1..8 |-> [color |-> "white", type |-> BackRank[9 - k]]]]
  IN Chessboard(board4)

create_initial_board ==
  LET board0 == NoneGrid(8, 8)
      board1 == [board0 EXCEPT ![1] = [k \in 1..8 |-> [color |-> "black", type |-> BackRank[k]]]]
      board2 == [board1 EXCEPT ![2] = [k \in 1..8 |-> [color |-> "black", type |-> "pawn"]]]
      board3 == [board2 EXCEPT ![7] = [k \in 1..8 |-> [color |-> "white", type |-> "pawn"]]]
      board4 == [board3 EXCEPT ![8] = [k \in 1..8 |-> [color |-> "white", type |-> BackRank[k]]]]
  IN Chessboard(board4)

\* External grids handed to the constructor.
Dims == (8 - Slack)..(8 + Slack)

OnePieceGrid(p, r, c) == [NoneGrid(8, 8) EXCEPT ![r + 1][c + 1] = p]

RaggedGrid(r, nc) == [NoneGrid(8, 8) EXCEPT ![r + 1] = NoneRow(nc)]

GridInputs ==
  {NoneGrid(nr, nc) : nr \in Dims, nc \in Dims}
  \cup {RaggedGrid(r, nc) : r \in 0..7, nc \in Dims}
  \cup {OnePieceGrid(p, q.row, q.col) : p \in Pieces, q \in Positions}
  \cup {create_initial_board.value.board, reversed(create_initial_board.value.board)}

InitBoard ==
  /\ input \in [grid : GridInputs]
  /\ self = None
  /\ call = [op |-> "start"]
  /\ ret = None
  /\ exc = "none"

\* Chessboard(board=input.grid)
ChessboardNew ==
  LET r == Chessboard(input.grid)
  IN /\ call' = [op |-> "Chessboard"]
     /\ exc' = r.exc
     /\ ret' = r.value
     /\ self' = IF r.exc = "none" THEN r.value ELSE self
     /\ UNCHANGED input

\* Chessboard.create_initial_board()
CreateInitialBoard ==
  LET r == create_initial_board
  IN /\ call' = [op |-> "create_initial_board"]
     /\ exc' = r.exc
     /\ ret' = r.value
     /\ self' = IF r.exc = "none" THEN r.value ELSE self
     /\ UNCHANGED input

\* self.validate_board_dimensions(self.board), called by hand
ValidateBoardDimensions ==
  /\ self # None
  /\ LET r == validate_board_dimensions(self.board)
     IN /\ call' = [op |-> "validate_board_dimensions"]
        /\ exc' = r.exc
        /\ ret' = r.value
  /\ UNCHANGED <<input, self>>

\* self.get_piece(position)
GetPiece ==
  /\ self # None
  /\ \E position \in Positions :
       LET r == get_piece(self, position)
       IN /\ call' = [op |-> "get_piece", position |-> position]
          /\ exc' = r.exc
          /\ ret' = r.value
  /\ UNCHANGED <<input, self>>

DisplayInPlace ==
  /\ self # None
  /\ call' = [op |-> "display"]
  /\ ret' = display(self)
  /\ exc' = "none"
  /\ self' = [board |-> reversed(self.board)]
  /\ UNCHANGED input

\* self.display()
Display ==
  /\ self # None
  /\ call' = [op |-> "display"]
  /\ ret' = display(self)
  /\ exc' = "none"
  /\ UNCHANGED <<input, self>>

NextBoard ==
  \/ ChessboardNew
  \/ CreateInitialBoard
  \/ ValidateBoardDimensions
  \/ GetPiece
  \/ Display

SpecBoard == InitBoard /\ [][NextBoard]_vars

----------------------------------------------------------------------------
\* Vocabulary of the properties

InBounds(x) == x \in 0..7

FileLetters == <<"a", "b", "c", "d", "e", "f", "g", "h">>

RankDigits == <<"1", "2", "3", "4", "5", "6", "7", "8">>

\* the square's name: file letter of the column, digit of rank 8 - row
SquareName(row, col) == <<FileLetters[col + 1], RankDigits[8 - row]>>

UpperLetter(type) ==
  CASE type = "pawn" -> "P" [] type = "rook" -> "R" [] type = "knight" -> "N"
    [] type = "bishop" -> "B" [] type = "queen" -> "Q" [] type = "king" -> "K"

LowerLetter(type) ==
  CASE type = "pawn" -> "p" [] type = "rook" -> "r" [] type = "knight" -> "n"
    [] type = "bishop" -> "b" [] type = "queen" -> "q" [] type = "king" -> "k"

\* the character a cell is drawn with
CellSymbol(cell) ==
  IF cell = None THEN "."
  ELSE IF cell.color = "black" THEN UpperLetter(cell.type) ELSE LowerLetter(cell.type)

Is8x8(grid) == Len(grid) = 8 /\ \A k \in 1..Len(grid) : Len(grid[k]) = 8

\* the lines of a text, split at the newlines
NewlineAt(s) == {k \in 1..Len(s) : s[k] = "\n"}

NthNewline(s, n) ==
  IF n = 0 THEN 0
  ELSE IF n > Cardinality(NewlineAt(s)) THEN Len(s) + 1
  ELSE CHOOSE x \in NewlineAt(s) : Cardinality({y \in NewlineAt(s) : y < x}) = n - 1

Lines(s) ==
  [n \in 1..(Cardinality(NewlineAt(s)) + 1) |->
     SubSeq(s, NthNewline(s, n - 1) + 1, NthNewline(s, n) - 1)]

----------------------------------------------------------------------------
\* C1: constructing a Chessboard from a grid whose outer length is not 8 or
\* one of whose rows is not of length 8 fails and returns no board, so every
\* Chessboard that exists is 8 rows of 8 cells.
C1_BoardAlways8x8 ==
  /\ (call.op = "Chessboard" /\ ~Is8x8(input.grid)) => (exc # "none" /\ ret = None)
  /\ self # None => Is8x8(self.board)

\* C2: in the rendering of an 8x8 board the body lines show grid row 0 first
\* and grid row 7 last, and the symbol drawn at rank r and file f is the cell
\* get_piece returns for the Position whose algebraic name is f followed by r.
C2_RenderAgreesWithNotation ==
  (call.op = "display" /\ Is8x8(self.board)) =>
    LET lines == Lines(ret)
    IN /\ Len(lines) = 12
       /\ \A s \in Positions :
            LET name == to_algebraic(s)
                f == CHOOSE c \in 1..8 : FileLetters[c] = name[1]
            IN /\ lines[3 + s.row][3 + 2 * f] = CellSymbol(get_piece(self, s).value)
               /\ \A n \in 3..10 :
                    lines[n][1] = name[2] =>
                      lines[n][3 + 2 * f] = CellSymbol(get_piece(self, s).value)

\* C3: get_piece on a constructed board and a valid Position never fails and
\* returns the content of board[row][col]; display never fails either.
C3_GetNeverFails ==
  /\ call.op = "get_piece" =>
       /\ exc = "none"
       /\ ret = self.board[call.position.row + 1][call.position.col + 1]
  /\ call.op = "display" => exc = "none"

\* C4: create_initial_board always returns the standard starting position:
\* black back rank on row 0, black pawns on row 1, rows 2 to 5 empty, white
\* pawns on row 6, white back rank on row 7.
C4_InitialPosition ==
  call.op = "create_initial_board" =>
    LET kinds == <<"rook", "knight", "bishop", "queen", "king", "bishop", "knight", "rook">>
        at(r, c) == get_piece(ret, [row |-> r, col |-> c])
    IN /\ exc = "none"
       /\ self = ret
       /\ Is8x8(ret.board)
       /\ \A c \in 0..7 :
            /\ at(0, c).value = [color |-> "black", type |-> kinds[c + 1]]
            /\ at(1, c).value = [color |-> "black", type |-> "pawn"]
            /\ \A r \in 2..5 : at(r, c).value = None
            /\ at(6, c).value = [color |-> "white", type |-> "pawn"]
            /\ at(7, c).value = [color |-> "white", type |-> kinds[c + 1]]
       /\ at(0, 4).value = [color |-> "black", type |-> "king"]
       /\ at(7, 4).value = [color |-> "white", type |-> "king"]
       /\ at(3, 3).value = None

C4_Witness ==
  /\ call.op = "create_initial_board"
  /\ input.grid # ret.board
  /\ ret.board[8][5] = [color |-> "white", type |-> "king"]

\* C5: to_algebraic of Position(row, col) is the file letter of col followed
\* by the digit 8 - row, and the mapping is a bijection between the 64
\* positions and the 64 names a1..h8.
C5_ToAlgebraicBijection ==
  call.op = "to_algebraic" =>
    /\ ret = SquareName(self.row, self.col)
    /\ \A q \in Positions : q # self => to_algebraic(q) # ret
    /\ {to_algebraic(q) : q \in Positions}
         = {<<FileLetters[f], RankDigits[r]>> : f \in 1..8, r \in 1..8}
    /\ self = [row |-> 0, col |-> 0] => ret = <<"a", "8">>
    /\ self = [row |-> 7, col |-> 7] => ret = <<"h", "1">>
    /\ self = [row |-> 7, col |-> 0] => ret = <<"a", "1">>

C5_Witness ==
  /\ call.op = "to_algebraic"
  /\ self = [row |-> 7, col |-> 0]
  /\ ret = <<"a", "1">>

\* C6: constructing a Position fails, and returns nothing, exactly when row
\* or col is outside 0..7; every Position that exists has both coordinates
\* in 0..7.
C6_PositionRange ==
  /\ call.op = "Position" =>
       IF InBounds(input.row) /\ InBounds(input.col)
         THEN exc = "none" /\ ret = [row |-> input.row, col |-> input.col] /\ self = ret
         ELSE exc = "ValidationError" /\ ret = None /\ self = None
  /\ self # None => InBounds(self.row) /\ InBounds(self.col)

C6_Witness ==
  /\ call.op = "Position"
  /\ input = [row |-> 8, col |-> 0]
  /\ exc = "ValidationError"
  /\ self = None

\* C7: the text of a move is the piece letter (none for a pawn, otherwise the
\* uppercase letter whatever the colour) followed by the names of the source
\* and destination squares.
C7_MoveText ==
  call.op = "PieceMove.__str__" =>
    LET letter == IF self.piece.type = "pawn" THEN <<>> ELSE <<UpperLetter(self.piece.type)>>
        from == self.from_position
        to == self.to_position
        other == [self EXCEPT !.piece.color = IF @ = "white" THEN "black" ELSE "white"]
    IN /\ ret = letter \o SquareName(from.row, from.col) \o SquareName(to.row, to.col)
       /\ ret = PieceMove_str(other)
       /\ (self.piece = [color |-> "white", type |-> "pawn"]
             /\ from = [row |-> 6, col |-> 4] /\ to = [row |-> 4, col |-> 4])
            => ret = <<"e", "2", "e", "4">>
       /\ (self.piece = [color |-> "black", type |-> "knight"]
             /\ from = [row |-> 0, col |-> 1] /\ to = [row |-> 2, col |-> 2])
            => ret = <<"N", "b", "8", "c", "6">>

C7_Witness ==
  /\ call.op = "PieceMove.__str__"
  /\ self.piece = [color |-> "white", type |-> "knight"]
  /\ self.from_position = [row |-> 7, col |-> 1]
  /\ self.to_position = [row |-> 5, col |-> 2]
  /\ ret = <<"N", "b", "1", "c", "3">>

\* C8: the symbol of a piece is one character, P R N B Q K by kind, uppercase
\* for black and lowercase for white, and the 12 symbols are pairwise distinct.
C8_PieceSymbol ==
  call.op = "Piece.__str__" =>
    /\ Len(ret) = 1
    /\ ret[1] = IF self.piece.color = "black" THEN UpperLetter(self.piece.type)
                ELSE LowerLetter(self.piece.type)
    /\ \A q \in Pieces : q # self.piece => Piece_str(q) # ret
    /\ self.piece = [color |-> "white", type |-> "pawn"] => ret = <<"p">>
    /\ self.piece = [color |-> "black", type |-> "queen"] => ret = <<"Q">>

C8_Witness ==
  /\ call.op = "Piece.__str__"
  /\ self.piece = [color |-> "black", type |-> "queen"]
  /\ ret = <<"Q">>

\* C9: the rendering of an 8x8 board has exactly 12 lines: the header, a
\* border drawn with '+' and '-' (after its one-space margin), eight body
\* lines labelled 8 down to 1 of the form "<digit> | <8 symbols separated by
\* spaces> |" with '.' for an empty cell and the piece symbol otherwise, the
\* same border again and the header again.
C9_RenderLayout ==
  (call.op = "display" /\ Is8x8(self.board)) =>
    LET lines == Lines(ret)
        border == lines[2]
        shows(line, row) == \A c \in 0..7 : line[5 + 2 * c] = CellSymbol(row[c + 1])
    IN /\ Len(lines) = 12
       /\ lines[1] = <<" ", " ", "A", " ", "B", " ", "C", " ", "D", " ", "E", " ", "F",
                       " ", "G", " ", "H">>
       /\ border[1] = " "
       /\ \A k \in 2..Len(border) : border[k] \in {"+", "-"}
       /\ \E k \in 2..Len(border) : border[k] = "+"
       /\ \E k \in 2..Len(border) : border[k] = "-"
       /\ lines[11] = border
       /\ lines[12] = lines[1]
       /\ \A n \in 1..8 :
            LET line == lines[2 + n]
            IN /\ Len(line) = 21
               /\ line[1] = RankDigits[9 - n]
               /\ SubSeq(line, 2, 4) = <<" ", "|", " ">>
               /\ \A c \in 0..6 : line[6 + 2 * c] = " "
               /\ SubSeq(line, 20, 21) = <<" ", "|">>
               /\ \E r \in 1..8 : shows(line, self.board[r])
       /\ \A r \in 1..8 : \E n \in 1..8 : shows(lines[2 + n], self.board[r])

C9_Witness ==
  /\ call.op = "display"
  /\ self = create_initial_board.value
  /\ Len(Lines(ret)) = 12
  /\ Lines(ret)[3][1] = "8"
  /\ Lines(ret)[6][5] = "."

\* C10: display and get_piece leave the board's grid as it was, and a second
\* display of the same board returns the same text as the first.
C10_ReadsArePure ==
  [][/\ call'.op \in {"display", "get_piece"} => self' = self
     /\ (call.op = "display" /\ call'.op = "display") => ret' = ret]_vars

C10_Witness ==
  /\ call.op = "display"
  /\ Is8x8(self.board)
  /\ self.board # reversed(self.board)
  /\ self.board = input.grid

====
